---- MODULE Spec2Model ----
(***************************************************************************)
(* databricks_utils: the pipeline helpers of pipelines/core.py (create,    *)
(* update, create_or_update, delete, wait_for_update) and jobs.py          *)
(* (wait_for_run), run against a remote workspace that keeps a listing of  *)
(* pipelines.  Each caller is one thread of the calling program; its       *)
(* position in the handler it runs is pc[c].                               *)
(***************************************************************************)
EXTENDS Integers, Sequences, FiniteSets, TLC

\* ------------------------------------------------------------------ bounds
\* Identifiers the remote may hand out in one behaviour.
MaxPipelines == 2
\* Largest timeout_seconds a caller passes to a poller.
MaxTimeout == 3
\* Largest poll_interval_seconds a caller passes to a poller.
MaxInterval == 2
\* The fetch and sleep counters of a poll stop counting here.
MaxPolls == 4

\* ------------------------------------------------------------ value domains
Callers == {1, 2}

EmptyMap == [k \in {} |-> ""]

\* Identifiers the remote hands out, in order of creation.
PipelineIds == <<"id1", "id2", "id3", "id4", "id5", "id6">>

\* An identifier no pipeline of the remote has.
ForeignId == "id9"

\* Two nested "configuration" values with different keys: a deep merge of
\* them would be their union, the shallow merge is the overriding one.
ConfigBase == [source |-> "demo"]
ConfigOverride == [target |-> "dev"]

\* A mapping with the optional fields given as sets of zero or one value.
MapOf(nm, pid, cfg) ==
    [k \in ((IF nm = {} THEN {} ELSE {"name"})
            \cup (IF pid = {} THEN {} ELSE {"pipeline_id"})
            \cup (IF cfg = {} THEN {} ELSE {"configuration"})) |->
        CASE k = "name" -> CHOOSE v \in nm : TRUE
          [] k = "pipeline_id" -> CHOOSE v \in pid : TRUE
          [] OTHER -> CHOOSE v \in cfg : TRUE]

Optional(S) == {{}} \cup {{v} : v \in S}

\* Base specifications a caller passes as a dict.
BaseMaps ==
    {MapOf(nm, pid, cfg) : nm \in Optional({"a", ""}),
                           pid \in Optional({ForeignId}),
                           cfg \in Optional({ConfigBase})}

\* Keyword overrides (**kwargs).
Overrides ==
    {MapOf(nm, pid, cfg) : nm \in Optional({"b"}),
                           pid \in Optional({ForeignId}),
                           cfg \in Optional({ConfigOverride})}

\* ------------------------------------------------------- the spec argument
\* spec is a dict, a str or (update only) None.  A str is described by its
\* JSON syntax and, for an object, by its members in textual order:
\*   "object"  a JSON object           "array"    valid JSON, not an object
\*   "empty"   the empty string        "garbage"  not JSON at all
DictArg(m) == [form |-> "dict", syntax |-> "", members |-> <<>>, map |-> m]
TextArg(syn, mem) == [form |-> "str", syntax |-> syn, members |-> mem, map |-> EmptyMap]
NoneArg == [form |-> "none", syntax |-> "", members |-> <<>>, map |-> EmptyMap]

\* The order in which a serializer writes the keys of a mapping.
KeyOrder == <<"name", "pipeline_id", "configuration">>

RECURSIVE MembersFrom(_, _)
MembersFrom(m, i) ==
    IF i > Len(KeyOrder) THEN <<>>
    ELSE IF KeyOrder[i] \in DOMAIN m
         THEN <<[k \in {KeyOrder[i]} |-> m[KeyOrder[i]]]>> \o MembersFrom(m, i + 1)
         ELSE MembersFrom(m, i + 1)

\* json.dumps(m): the text form equivalent to the mapping m.
Dumps(m) == TextArg("object", MembersFrom(m, 1))

\* A JSON object text that repeats a key.
DupText == TextArg("object", <<[k \in {"name"} |-> "a"], [k \in {"name"} |-> "b"]>>)

MalformedTexts == {TextArg("empty", <<>>), TextArg("garbage", <<>>), TextArg("array", <<>>)}

SpecArgs ==
    {DictArg(m) : m \in BaseMaps} \cup {Dumps(m) : m \in BaseMaps}
        \cup {DupText} \cup MalformedTexts

\* ------------------------------------------------------------ Spec Normalizer
\* json.loads(text): JSONDecodeError on text that is not JSON; otherwise the
\* value, which is a dict only for an object (later members win).
RECURSIVE ObjectOf(_)
ObjectOf(members) ==
    IF members = <<>> THEN EmptyMap
    ELSE members[Len(members)] @@ ObjectOf(SubSeq(members, 1, Len(members) - 1))

JsonLoads(text) ==
    CASE text.syntax \in {"empty", "garbage"} ->
            [err |-> "JSONDecodeError", isdict |-> FALSE, map |-> EmptyMap]
      [] text.syntax = "array" -> [err |-> "", isdict |-> FALSE, map |-> EmptyMap]
      [] OTHER -> [err |-> "", isdict |-> TRUE, map |-> ObjectOf(text.members)]

\* Python truthiness of the spec argument (`if spec:`).
Truthy(s) ==
    CASE s.form = "str" -> s.syntax # "empty"
      [] s.form = "dict" -> DOMAIN s.map # {}
      [] OTHER -> FALSE

\* Variant of DictUpdate that keeps the value d already has for a key.
DictUpdateKeep(d, kwargs) == d @@ kwargs

\* d.update(kwargs): every key of kwargs replaces the key of d, whole value.
DictUpdate(d, kwargs) == kwargs @@ d

\* d.get("name"), with the empty string standing for None.
NameIn(args) == IF "name" \in DOMAIN args THEN args["name"] ELSE ""

\* d[key] = value
SetItem(d, key, value) == [k \in {key} |-> value] @@ d

\* Variant of Loaded that does not parse a str argument.
LoadedTextIgnored(s) == [err |-> "", isdict |-> TRUE, map |-> s.map]

\* The value a str/dict argument stands for before the merge.
Loaded(s) ==
    IF s.form = "str" THEN JsonLoads(s)
    ELSE [err |-> "", isdict |-> TRUE, map |-> s.map]

\* Merge of the loaded value with the overrides; a value that is not a dict
\* has no update method.
Merged(loaded, kwargs) ==
    CASE loaded.err # "" -> [err |-> loaded.err, map |-> EmptyMap]
      [] ~loaded.isdict -> [err |-> "AttributeError", map |-> EmptyMap]
      [] OTHER -> [err |-> "", map |-> DictUpdate(loaded.map, kwargs)]

\* create, lines 60-65: the arguments of the create request.
CreateArgs(s, kwargs) == Merged(Loaded(s), kwargs)

\* Variant of update that sets pipeline_id before the overrides are merged.
UpdateArgsIdFirst(pipeline_id, s, kwargs) ==
    LET loaded == IF Truthy(s) THEN Loaded(s)
                  ELSE [err |-> "", isdict |-> TRUE, map |-> EmptyMap]
    IN  IF loaded.err # "" \/ ~loaded.isdict THEN Merged(loaded, kwargs)
        ELSE Merged([loaded EXCEPT !.map = SetItem(@, "pipeline_id", pipeline_id)],
                    kwargs)

\* update, lines 171-180: the arguments of the update request.
UpdateArgs(pipeline_id, s, kwargs) ==
    LET loaded == IF Truthy(s) THEN Loaded(s)
                  ELSE [err |-> "", isdict |-> TRUE, map |-> EmptyMap]
        m == Merged(loaded, kwargs)
    IN  IF m.err # "" THEN m
        ELSE [err |-> "", map |-> SetItem(m.map, "pipeline_id", pipeline_id)]

\* Variant of ParsedSpec that does not require a name.
ParsedSpecUnchecked(s, kwargs) == Merged(Loaded(s), kwargs)

\* create_or_update, lines 236-248: parsed_spec, or the error raised before
\* the existence check.
ParsedSpec(s, kwargs) ==
    LET m == Merged(Loaded(s), kwargs)
    IN  CASE m.err # "" -> m
          [] NameIn(m.map) = "" ->
                [err |-> "ValueError", map |-> m.map]
          [] OTHER -> m

\* ------------------------------------------------------------------- state
VARIABLES
    remote,         \* the workspace's pipelines, in listing order
    issued,         \* how many pipeline identifiers the remote has handed out
    pc,             \* pc[c]: where caller c is in the handler it runs
    call,           \* call[c]: the function c called last and its arguments
    spec,           \* spec[c]: the caller's spec object as it stands now
    parsed_spec,    \* create_or_update's local parsed_spec
    all_pipelines,  \* create_or_update's local all_pipelines
    reqs,           \* reqs[c]: the requests the current call sent to the client
    result,         \* result[c]: how the last call ended
    poll,           \* the pollers' locals
    prev,           \* prev[c]: outcome of the create_or_update call just before
    local           \* the local filesystem at local_path

vars == <<remote, issued, pc, call, spec, parsed_spec, all_pipelines, reqs,
          result, poll, prev, local>>

Pipeline(id, nm) == [pipeline_id |-> id, name |-> nm]

\* A request to the client: ok tells whether it returned or raised, response
\* is the identifier or content of what it returned.
Answered(method, args, ok, response) ==
    [method |-> method, args |-> args, ok |-> ok, response |-> response]

Request(method, args, ok) == Answered(method, args, ok, "")

\* An Optional[List[str]] argument: None, or a list.
NoneList == [given |-> FALSE, items |-> <<>>]
ListOf(items) == [given |-> TRUE, items |-> items]

\* The local filesystem: whether the parent directory of local_path exists,
\* the bytes of the file at local_path, and the step that failed last.
NoFile == "<absent>"
Disk(parent, file) == [parent |-> parent, file |-> file, fault |-> ""]

NoCall ==
    [op |-> "none", spec |-> NoneArg, kwargs |-> EmptyMap, pipeline_id |-> "",
     timeout_seconds |-> 0, poll_interval_seconds |-> 0,
     refresh_selection |-> NoneList, full_refresh_selection |-> NoneList,
     validate_only |-> FALSE, full_refresh |-> FALSE,
     format |-> "", language |-> "", overwrite |-> FALSE,
     local0 |-> Disk(FALSE, NoFile)]

NoResult ==
    [status |-> "none", pipeline_id |-> "", was_created |-> FALSE, state |-> "",
     error |-> "", msg_id |-> "", msg_timeout |-> 0, update_id |-> "",
     success |-> FALSE]

Returned(id, created, st) ==
    [NoResult EXCEPT !.status = "returned", !.pipeline_id = id,
                     !.was_created = created, !.state = st]

Raised(e) == [NoResult EXCEPT !.status = "raised", !.error = e]

NoPoll == [elapsed |-> 0, fetches |-> 0, sleeps |-> 0, last |-> ""]

NoPrev == [name |-> "", pipeline_id |-> "", was_created |-> FALSE]

\* The workspace before the program runs: empty, one pipeline, or two that
\* share a name (the platform does not keep names unique).
InitRemotes ==
    {<<>>,
     <<Pipeline(PipelineIds[1], "a")>>,
     <<Pipeline(PipelineIds[1], "b"), Pipeline(PipelineIds[2], "b")>>}

\* Everything but the workspace's pipelines and the local filesystem.
InitCallers ==
    /\ pc = [c \in Callers |-> "idle"]
    /\ call = [c \in Callers |-> NoCall]
    /\ spec = [c \in Callers |-> NoneArg]
    /\ parsed_spec = [c \in Callers |-> EmptyMap]
    /\ all_pipelines = [c \in Callers |-> <<>>]
    /\ reqs = [c \in Callers |-> <<>>]
    /\ result = [c \in Callers |-> NoResult]
    /\ poll = [c \in Callers |-> NoPoll]
    /\ prev = [c \in Callers |-> NoPrev]

Init ==
    /\ remote \in InitRemotes
    /\ issued = Len(remote)
    /\ local = Disk(FALSE, NoFile)
    /\ InitCallers

\* ------------------------------------------------------------- the remote
RemoteIds(r) == {r[i].pipeline_id : i \in 1..Len(r)}

\* Whether a request may succeed; the remote may also refuse any request.
CanCreate == issued < MaxPipelines
CanUpdate(args) == args["pipeline_id"] \in RemoteIds(remote)
Outcomes(possible) == IF possible THEN {TRUE, FALSE} ELSE {FALSE}

\* client.pipelines.create(**args): a new pipeline at the end of the listing.
RemoteCreate(r, n, args) == Append(r, Pipeline(PipelineIds[n + 1], NameIn(args)))

\* client.pipelines.update(**args): the pipeline takes the name in args.
RemoteUpdate(r, args) ==
    [i \in 1..Len(r) |->
        IF r[i].pipeline_id = args["pipeline_id"] /\ "name" \in DOMAIN args
        THEN Pipeline(r[i].pipeline_id, args["name"])
        ELSE r[i]]

\* client.pipelines.delete(pipeline_id=id)
RemoteDelete(r, id) == SelectSeq(r, LAMBDA p : p.pipeline_id # id)

\* ------------------------------------------------------------ call framing
\* The outcome of the create_or_update call that has just ended, kept while
\* the caller starts its next call.
Outcome(c) ==
    IF call[c].op = "create_or_update" /\ result[c].status = "returned"
    THEN [name |-> NameIn(parsed_spec[c]), pipeline_id |-> result[c].pipeline_id,
          was_created |-> result[c].was_created]
    ELSE NoPrev

\* Caller c enters a function.
Enter(c, cl) ==
    /\ call' = [call EXCEPT ![c] = cl]
    /\ UNCHANGED <<poll, prev, local>>

\* The call has returned or raised: control is back in the caller, the frame
\* of the call is gone, and the caller keeps what create_or_update returned.
Return(c) ==
    /\ pc[c] = "done"
    /\ pc' = [pc EXCEPT ![c] = "idle"]
    /\ prev' = [prev EXCEPT ![c] = Outcome(c)]
    /\ call' = [call EXCEPT ![c] = NoCall]
    /\ spec' = [spec EXCEPT ![c] = NoneArg]
    /\ parsed_spec' = [parsed_spec EXCEPT ![c] = EmptyMap]
    /\ all_pipelines' = [all_pipelines EXCEPT ![c] = <<>>]
    /\ reqs' = [reqs EXCEPT ![c] = <<>>]
    /\ result' = [result EXCEPT ![c] = NoResult]
    /\ poll' = [poll EXCEPT ![c] = NoPoll]
    /\ UNCHANGED <<remote, issued, local>>

\* ------------------------------------------------------------------ create
Create(c) ==
    /\ pc[c] = "idle"
    /\ \E s \in SpecArgs, kwargs \in Overrides, ok \in Outcomes(CanCreate) :
        LET a == CreateArgs(s, kwargs) IN
        /\ Enter(c, [NoCall EXCEPT !.op = "create", !.spec = s, !.kwargs = kwargs])
        /\ parsed_spec' = [parsed_spec EXCEPT ![c] = EmptyMap]
        /\ all_pipelines' = [all_pipelines EXCEPT ![c] = <<>>]
        /\ pc' = [pc EXCEPT ![c] = "done"]
        /\ IF a.err # ""
           THEN /\ result' = [result EXCEPT ![c] = Raised(a.err)]
                /\ reqs' = [reqs EXCEPT ![c] = <<>>]
                /\ spec' = [spec EXCEPT ![c] = s]
                /\ UNCHANGED <<remote, issued>>
           ELSE \* spec.update(kwargs) is done on the caller's own dict
                /\ spec' = [spec EXCEPT ![c] = IF s.form = "dict" THEN DictArg(a.map) ELSE s]
                /\ reqs' = [reqs EXCEPT ![c] = <<Request("create", a.map, ok)>>]
                /\ IF ok
                   THEN /\ remote' = RemoteCreate(remote, issued, a.map)
                        /\ issued' = issued + 1
                        /\ result' = [result EXCEPT ![c] =
                                        Returned(PipelineIds[issued + 1], FALSE, "")]
                   ELSE /\ result' = [result EXCEPT ![c] = Raised("RemoteError")]
                        /\ UNCHANGED <<remote, issued>>

\* ------------------------------------------------------------------ update
Update(c) ==
    /\ pc[c] = "idle"
    /\ \E pid \in {PipelineIds[1], PipelineIds[2]}, s \in SpecArgs \cup {NoneArg},
          kwargs \in Overrides :
        LET a == UpdateArgs(pid, s, kwargs) IN
        /\ Enter(c, [NoCall EXCEPT !.op = "update", !.spec = s, !.kwargs = kwargs,
                                   !.pipeline_id = pid])
        /\ parsed_spec' = [parsed_spec EXCEPT ![c] = EmptyMap]
        /\ all_pipelines' = [all_pipelines EXCEPT ![c] = <<>>]
        /\ spec' = [spec EXCEPT ![c] = s]
        /\ pc' = [pc EXCEPT ![c] = "done"]
        /\ UNCHANGED issued
        /\ IF a.err # ""
           THEN /\ result' = [result EXCEPT ![c] = Raised(a.err)]
                /\ reqs' = [reqs EXCEPT ![c] = <<>>]
                /\ UNCHANGED remote
           ELSE \E ok \in Outcomes(CanUpdate(a.map)) :
                /\ reqs' = [reqs EXCEPT ![c] = <<Request("update", a.map, ok)>>]
                /\ IF ok
                   THEN /\ remote' = RemoteUpdate(remote, a.map)
                        /\ result' = [result EXCEPT ![c] = Returned("", FALSE, "")]
                   ELSE /\ result' = [result EXCEPT ![c] = Raised("RemoteError")]
                        /\ UNCHANGED remote

\* ------------------------------------------------------------------ delete
Delete(c) ==
    /\ pc[c] = "idle"
    /\ \E pid \in {PipelineIds[1], PipelineIds[2]} :
       \E ok \in Outcomes(pid \in RemoteIds(remote)) :
        /\ Enter(c, [NoCall EXCEPT !.op = "delete", !.pipeline_id = pid])
        /\ parsed_spec' = [parsed_spec EXCEPT ![c] = EmptyMap]
        /\ all_pipelines' = [all_pipelines EXCEPT ![c] = <<>>]
        /\ spec' = [spec EXCEPT ![c] = NoneArg]
        /\ pc' = [pc EXCEPT ![c] = "done"]
        /\ UNCHANGED issued
        /\ reqs' = [reqs EXCEPT ![c] =
                      <<Request("delete", [k \in {"pipeline_id"} |-> pid], ok)>>]
        /\ IF ok
           THEN /\ remote' = RemoteDelete(remote, pid)
                /\ result' = [result EXCEPT ![c] = Returned("", FALSE, "")]
           ELSE /\ result' = [result EXCEPT ![c] = Raised("RemoteError")]
                /\ UNCHANGED remote

\* --------------------------------------------------------- create_or_update
\* Lines 236-248: parse, merge, require a name.
\* The call of create_or_update with a spec of specs and overrides of
\* overrides, up to the existence check.
CreateOrUpdateFrom(c, specs, overrides) ==
    /\ pc[c] = "idle"
    /\ \E s \in specs, kwargs \in overrides :
        LET p == ParsedSpec(s, kwargs) IN
        /\ Enter(c, [NoCall EXCEPT !.op = "create_or_update", !.spec = s,
                                   !.kwargs = kwargs])
        /\ spec' = [spec EXCEPT ![c] = s]
        /\ all_pipelines' = [all_pipelines EXCEPT ![c] = <<>>]
        /\ reqs' = [reqs EXCEPT ![c] = <<>>]
        /\ parsed_spec' = [parsed_spec EXCEPT ![c] = p.map]
        /\ IF p.err # ""
           THEN /\ result' = [result EXCEPT ![c] = Raised(p.err)]
                /\ pc' = [pc EXCEPT ![c] = "done"]
           ELSE /\ result' = [result EXCEPT ![c] = NoResult]
                /\ pc' = [pc EXCEPT ![c] = "list"]
        /\ UNCHANGED <<remote, issued>>

\* Variant of the listing step that, when the listing raises, goes on with an
\* empty listing and so to the create.
ListPipelinesCreateOnError(c) ==
    /\ pc[c] = "list"
    /\ \E ok \in BOOLEAN :
        /\ reqs' = [reqs EXCEPT ![c] = Append(@, Request("list_pipelines", EmptyMap, ok))]
        /\ all_pipelines' = [all_pipelines EXCEPT ![c] = IF ok THEN remote ELSE <<>>]
    /\ pc' = [pc EXCEPT ![c] = "found"]
    /\ UNCHANGED <<remote, issued, call, spec, parsed_spec, result, poll, prev, local>>

CreateOrUpdate(c) == CreateOrUpdateFrom(c, SpecArgs, Overrides)

\* Line 252: all_pipelines = list(client.pipelines.list_pipelines()); an
\* exception is caught at line 277 and raised again as RuntimeError.
ListPipelines(c) ==
    /\ pc[c] = "list"
    /\ \E ok \in BOOLEAN :
        /\ reqs' = [reqs EXCEPT ![c] = Append(@, Request("list_pipelines", EmptyMap, ok))]
        /\ IF ok
           THEN /\ all_pipelines' = [all_pipelines EXCEPT ![c] = remote]
                /\ pc' = [pc EXCEPT ![c] = "found"]
                /\ UNCHANGED result
           ELSE /\ result' = [result EXCEPT ![c] = Raised("RuntimeError")]
                /\ pc' = [pc EXCEPT ![c] = "done"]
                /\ UNCHANGED all_pipelines
    /\ UNCHANGED <<remote, issued, call, spec, parsed_spec, poll, prev, local>>

\* Lines 253-258: index of the first pipeline with the name, 0 if none.
RECURSIVE FirstMatch(_, _, _)
FirstMatch(listing, nm, i) ==
    IF i > Len(listing) THEN 0
    ELSE IF listing[i].name = nm THEN i
    ELSE FirstMatch(listing, nm, i + 1)

\* Variants of the search: one takes any listed pipeline for the match, one
\* never finds a match.
ExistingPipelineAny(listing, nm) == IF Len(listing) > 0 THEN 1 ELSE 0
ExistingPipelineNone(listing, nm) == 0

\* Variant of the search that starts at the second pipeline of the listing.
ExistingPipelineSkipFirst(listing, nm) == FirstMatch(listing, nm, 2)

\* Variant of the search that keeps the last pipeline with the name.
ExistingPipelineLast(listing, nm) ==
    IF \E i \in 1..Len(listing) : listing[i].name = nm
    THEN CHOOSE i \in 1..Len(listing) :
            /\ listing[i].name = nm
            /\ \A j \in (i + 1)..Len(listing) : listing[j].name # nm
    ELSE 0

ExistingPipeline(listing, nm) == FirstMatch(listing, nm, 1)

\* Variant of UpdateSpec that sends the identifier alone.
UpdateSpecIdOnly(parsed, id) == [k \in {"pipeline_id"} |-> id]

\* Lines 265-266: update_spec = parsed_spec.copy() with pipeline_id set.
UpdateSpec(parsed, id) == SetItem(parsed, "pipeline_id", id)

\* Lines 260-270: the pipeline exists, update it.
UpdateExisting(c) ==
    /\ pc[c] = "found"
    /\ ExistingPipeline(all_pipelines[c], NameIn(parsed_spec[c])) # 0
    /\ LET existing == all_pipelines[c][ExistingPipeline(all_pipelines[c],
                                                NameIn(parsed_spec[c]))]
           update_spec == UpdateSpec(parsed_spec[c], existing.pipeline_id)
       IN  \E ok \in Outcomes(CanUpdate(update_spec)) :
            /\ reqs' = [reqs EXCEPT ![c] = Append(@, Request("update", update_spec, ok))]
            /\ IF ok
               THEN /\ remote' = RemoteUpdate(remote, update_spec)
                    /\ result' = [result EXCEPT ![c] =
                                    Returned(existing.pipeline_id, FALSE, "")]
               ELSE /\ result' = [result EXCEPT ![c] = Raised("RuntimeError")]
                    /\ UNCHANGED remote
    /\ pc' = [pc EXCEPT ![c] = "done"]
    /\ UNCHANGED <<issued, call, spec, parsed_spec, all_pipelines, poll, prev, local>>

\* Lines 272-275: the pipeline does not exist, create it.
CreateMissing(c) ==
    /\ pc[c] = "found"
    /\ ExistingPipeline(all_pipelines[c], NameIn(parsed_spec[c])) = 0
    /\ \E ok \in Outcomes(CanCreate) :
        /\ reqs' = [reqs EXCEPT ![c] = Append(@, Request("create", parsed_spec[c], ok))]
        /\ IF ok
           THEN /\ remote' = RemoteCreate(remote, issued, parsed_spec[c])
                /\ issued' = issued + 1
                /\ result' = [result EXCEPT ![c] =
                                Returned(PipelineIds[issued + 1], TRUE, "")]
           ELSE /\ result' = [result EXCEPT ![c] = Raised("RuntimeError")]
                /\ UNCHANGED <<remote, issued>>
    /\ pc' = [pc EXCEPT ![c] = "done"]
    /\ UNCHANGED <<call, spec, parsed_spec, all_pipelines, poll, prev, local>>

\* ------------------------------------------------- start, stop and dry_run
\* What the callers pass for a table selection: None, [] or one table.
Selections == {NoneList, ListOf(<<>>), ListOf(<<"t1">>)}

\* `if refresh_selection:` is false for None and for the empty list.
Selected(l) == l.given /\ Len(l.items) > 0

\* The update identifiers that start_update may answer with.
UpdateIds == {"u1", "u2"}

\* Variant of dry_run's arguments that passes validate_only whatever it is.
DryRunArgsWithFlag(pid, rs, frs, vo) ==
    [k \in {"pipeline_id", "validate_only"}
            \cup (IF Selected(rs) THEN {"refresh_selection"} ELSE {})
            \cup (IF Selected(frs) THEN {"full_refresh_selection"} ELSE {}) |->
        CASE k = "pipeline_id" -> pid
          [] k = "refresh_selection" -> rs.items
          [] k = "full_refresh_selection" -> frs.items
          [] k = "validate_only" -> vo]

\* Variant of dry_run's arguments that tests the selections with `is not None`.
DryRunArgsNotNone(pid, rs, frs, vo) ==
    [k \in {"pipeline_id"}
            \cup (IF rs.given THEN {"refresh_selection"} ELSE {})
            \cup (IF frs.given THEN {"full_refresh_selection"} ELSE {})
            \cup (IF vo THEN {"validate_only"} ELSE {}) |->
        CASE k = "pipeline_id" -> pid
          [] k = "refresh_selection" -> rs.items
          [] k = "full_refresh_selection" -> frs.items
          [] k = "validate_only" -> vo]

\* core.py 125-139: the keyword arguments dry_run builds for start_update.
DryRunArgs(pid, rs, frs, vo) ==
    [k \in {"pipeline_id"}
            \cup (IF Selected(rs) THEN {"refresh_selection"} ELSE {})
            \cup (IF Selected(frs) THEN {"full_refresh_selection"} ELSE {})
            \cup (IF vo THEN {"validate_only"} ELSE {}) |->
        CASE k = "pipeline_id" -> pid
          [] k = "refresh_selection" -> rs.items
          [] k = "full_refresh_selection" -> frs.items
          [] k = "validate_only" -> vo]

\* core.py 334-340: the keyword arguments start builds for start_update.
StartArgs(pid, fr, rs) ==
    [k \in {"pipeline_id"}
            \cup (IF fr THEN {"full_refresh"} ELSE {})
            \cup (IF Selected(rs) THEN {"refresh_selection"} ELSE {}) |->
        CASE k = "pipeline_id" -> pid
          [] k = "full_refresh" -> fr
          [] k = "refresh_selection" -> rs.items]

\* A call that sends the one request rq and returns the update identifier of
\* the answer, or raises what the request raised.
RunControl(c, cl, rq) ==
    /\ Enter(c, cl)
    /\ spec' = [spec EXCEPT ![c] = NoneArg]
    /\ parsed_spec' = [parsed_spec EXCEPT ![c] = EmptyMap]
    /\ all_pipelines' = [all_pipelines EXCEPT ![c] = <<>>]
    /\ reqs' = [reqs EXCEPT ![c] = <<rq>>]
    /\ result' = [result EXCEPT ![c] =
                    IF rq.ok
                    THEN [Returned("", FALSE, "") EXCEPT !.update_id = rq.response]
                    ELSE Raised("RemoteError")]
    /\ pc' = [pc EXCEPT ![c] = "done"]
    /\ UNCHANGED <<remote, issued>>

\* The answers of the remote to a request about pipeline pid: it raises, or
\* returns one of ids.
Answers(pid, ids) ==
    {[ok |-> FALSE, response |-> ""]}
        \cup (IF pid \in RemoteIds(remote)
              THEN {[ok |-> TRUE, response |-> u] : u \in ids} ELSE {})

DryRun(c) ==
    /\ pc[c] = "idle"
    /\ \E pid \in {PipelineIds[1], PipelineIds[2]}, rs \in Selections,
          frs \in Selections, vo \in BOOLEAN :
       \E a \in Answers(pid, UpdateIds) :
        RunControl(c, [NoCall EXCEPT !.op = "dry_run", !.pipeline_id = pid,
                                     !.refresh_selection = rs,
                                     !.full_refresh_selection = frs,
                                     !.validate_only = vo],
                   Answered("start_update", DryRunArgs(pid, rs, frs, vo),
                            a.ok, a.response))

Start(c) ==
    /\ pc[c] = "idle"
    /\ \E pid \in {PipelineIds[1], PipelineIds[2]}, fr \in BOOLEAN,
          rs \in Selections :
       \E a \in Answers(pid, UpdateIds) :
        RunControl(c, [NoCall EXCEPT !.op = "start", !.pipeline_id = pid,
                                     !.full_refresh = fr,
                                     !.refresh_selection = rs],
                   Answered("start_update", StartArgs(pid, fr, rs),
                            a.ok, a.response))

\* core.py 361: client.pipelines.stop(pipeline_id=pipeline_id), returns None.
Stop(c) ==
    /\ pc[c] = "idle"
    /\ \E pid \in {PipelineIds[1], PipelineIds[2]} :
       \E a \in Answers(pid, {""}) :
        RunControl(c, [NoCall EXCEPT !.op = "stop", !.pipeline_id = pid],
                   Answered("stop", [k \in {"pipeline_id"} |-> pid],
                            a.ok, a.response))

\* ------------------------------------------------------------- the pollers
\* wait_for_update (core.py 494-510) and wait_for_run (jobs.py 37-49) are the
\* same loop over a different status fetch and terminal set.
Pollers == {"wait_for_update", "wait_for_run"}

\* Variant of the terminal sets that takes a running operation for finished.
TerminalStatesWithRunning(op) ==
    IF op = "wait_for_update" THEN {"COMPLETED", "FAILED", "CANCELED", "RUNNING"}
    ELSE {"TERMINATED", "SKIPPED", "INTERNAL_ERROR", "RUNNING"}

TerminalStates(op) ==
    IF op = "wait_for_update" THEN {"COMPLETED", "FAILED", "CANCELED"}
    ELSE {"TERMINATED", "SKIPPED", "INTERNAL_ERROR"}

\* What a status fetch may return.
States(op) == TerminalStates(op) \cup {"RUNNING"}

FetchMethod(op) == IF op = "wait_for_update" THEN "get_update" ELSE "get_run"

\* The identifier of the watched operation: update_id or run_id.
Watched(op) == IF op = "wait_for_update" THEN "u1" ELSE "r1"

\* The pipeline whose update wait_for_update is asked to watch.
PolledPipeline == PipelineIds[1]

\* Variant of the fetch that passes the two identifiers in each other's place.
FetchArgsSwapped(op) ==
    IF op = "wait_for_update"
    THEN [k \in {"pipeline_id", "update_id"} |->
            IF k = "pipeline_id" THEN Watched(op) ELSE PolledPipeline]
    ELSE [k \in {"run_id"} |-> Watched(op)]

FetchArgs(op) ==
    IF op = "wait_for_update"
    THEN [k \in {"pipeline_id", "update_id"} |->
            IF k = "pipeline_id" THEN PolledPipeline ELSE Watched(op)]
    ELSE [k \in {"run_id"} |-> Watched(op)]

Timeouts == -1..MaxTimeout
Intervals == -1..MaxInterval

Count(n) == IF n < MaxPolls THEN n + 1 ELSE n

\* The call: elapsed = 0.  call[c].pipeline_id holds the watched identifier,
\* which the TimeoutError message names.
WaitFor(c) ==
    /\ pc[c] = "idle"
    /\ \E op \in Pollers, t \in Timeouts, i \in Intervals :
        call' = [call EXCEPT ![c] = [NoCall EXCEPT !.op = op, !.pipeline_id = Watched(op),
                                           !.timeout_seconds = t,
                                           !.poll_interval_seconds = i]]
    /\ pc' = [pc EXCEPT ![c] = "loop"]
    /\ poll' = [poll EXCEPT ![c] = NoPoll]
    /\ UNCHANGED <<remote, issued, spec, parsed_spec, all_pipelines, reqs, result, prev, local>>

\* Variant of the loop test that goes round once more at the bound.
LoopConditionInclusive(elapsed, timeout_seconds) == elapsed <= timeout_seconds

\* Variant of the loop test that lets the first round through: a loop that
\* fetches once before it looks at the timeout.
LoopConditionAfterFirst(elapsed, timeout_seconds) ==
    elapsed = 0 \/ elapsed < timeout_seconds

\* while elapsed < timeout_seconds
LoopCondition(elapsed, timeout_seconds) == elapsed < timeout_seconds

\* The loop test; when it fails the TimeoutError after the loop is raised.
LoopTest(c) ==
    /\ pc[c] = "loop"
    /\ IF LoopCondition(poll[c].elapsed, call[c].timeout_seconds)
       THEN /\ pc' = [pc EXCEPT ![c] = "fetch"]
            /\ UNCHANGED result
       ELSE /\ pc' = [pc EXCEPT ![c] = "done"]
            /\ result' = [result EXCEPT ![c] =
                            [Raised("TimeoutError") EXCEPT
                                !.msg_id = call[c].pipeline_id,
                                !.msg_timeout = call[c].timeout_seconds]]
    /\ UNCHANGED <<remote, issued, call, spec, parsed_spec, all_pipelines, reqs, poll, prev, local>>

\* Variant of the loop body that sleeps before it looks at the fetched state.
PollNextCheckAfterSleep(at, op, st) ==
    IF at = "fetch" THEN "sleep"
    ELSE (IF st \in TerminalStates(op) THEN "done" ELSE "loop")

\* Where the loop body goes next: after the fetch it returns on a terminal
\* state and sleeps otherwise; after the sleep it is back at the loop test.
PollNext(at, op, st) ==
    IF at = "fetch"
    THEN (IF st \in TerminalStates(op) THEN "done" ELSE "sleep")
    ELSE "loop"

\* Variant of the status fetch that takes a fetch that raised for one more
\* round of the loop: it sleeps and fetches again.
FetchRetrying(c) ==
    /\ pc[c] = "fetch"
    /\ LET op == call[c].op IN
       \E ok \in BOOLEAN, st \in States(op) :
        /\ reqs' = [reqs EXCEPT ![c] =
                      IF poll[c].fetches < MaxPolls
                      THEN Append(@, Request(FetchMethod(op), FetchArgs(op), ok))
                      ELSE [@ EXCEPT ![Len(@)] =
                                Request(FetchMethod(op), FetchArgs(op), ok)]]
        /\ IF ~ok
           THEN /\ st = "RUNNING"
                /\ poll' = [poll EXCEPT ![c].fetches = Count(@)]
                /\ pc' = [pc EXCEPT ![c] = "sleep"]
                /\ UNCHANGED result
           ELSE /\ poll' = [poll EXCEPT ![c].fetches = Count(@), ![c].last = st]
                /\ pc' = [pc EXCEPT ![c] = PollNext("fetch", op, st)]
                /\ result' = [result EXCEPT ![c] =
                                IF PollNext("fetch", op, st) = "done"
                                THEN Returned("", FALSE, st) ELSE @]
    /\ UNCHANGED <<remote, issued, call, spec, parsed_spec, all_pipelines, prev, local>>

\* The status fetch and the test for a terminal state.
Fetch(c) ==
    /\ pc[c] = "fetch"
    /\ LET op == call[c].op IN
       \E ok \in BOOLEAN, st \in States(op) :
        /\ reqs' = [reqs EXCEPT ![c] =
                      IF poll[c].fetches < MaxPolls
                      THEN Append(@, Request(FetchMethod(op), FetchArgs(op), ok))
                      ELSE [@ EXCEPT ![Len(@)] =
                                Request(FetchMethod(op), FetchArgs(op), ok)]]
        /\ IF ~ok
           THEN /\ st = "RUNNING"
                /\ poll' = [poll EXCEPT ![c].fetches = Count(@)]
                /\ result' = [result EXCEPT ![c] = Raised("RemoteError")]
                /\ pc' = [pc EXCEPT ![c] = "done"]
           ELSE /\ poll' = [poll EXCEPT ![c].fetches = Count(@), ![c].last = st]
                /\ pc' = [pc EXCEPT ![c] = PollNext("fetch", op, st)]
                /\ result' = [result EXCEPT ![c] =
                                IF PollNext("fetch", op, st) = "done"
                                THEN Returned("", FALSE, st) ELSE @]
    /\ UNCHANGED <<remote, issued, call, spec, parsed_spec, all_pipelines, prev, local>>

\* Variant of the sleep that counts one second for each round of the loop,
\* whatever the interval.
SleepCountingRounds(c) ==
    /\ pc[c] = "sleep"
    /\ IF call[c].poll_interval_seconds < 0
       THEN /\ result' = [result EXCEPT ![c] = Raised("ValueError")]
            /\ pc' = [pc EXCEPT ![c] = "done"]
            /\ UNCHANGED poll
       ELSE /\ poll' = [poll EXCEPT ![c].sleeps = Count(@), ![c].elapsed = @ + 1]
            /\ pc' = [pc EXCEPT ![c] = PollNext("sleep", call[c].op, poll[c].last)]
            /\ result' = [result EXCEPT ![c] =
                            IF PollNext("sleep", call[c].op, poll[c].last) = "done"
                            THEN Returned("", FALSE, poll[c].last) ELSE @]
    /\ UNCHANGED <<remote, issued, call, spec, parsed_spec, all_pipelines, reqs, prev, local>>

\* time.sleep(poll_interval_seconds); elapsed += poll_interval_seconds.
\* time.sleep raises ValueError for a negative length.
Sleep(c) ==
    /\ pc[c] = "sleep"
    /\ IF call[c].poll_interval_seconds < 0
       THEN /\ result' = [result EXCEPT ![c] = Raised("ValueError")]
            /\ pc' = [pc EXCEPT ![c] = "done"]
            /\ UNCHANGED poll
       ELSE /\ poll' = [poll EXCEPT ![c].sleeps = Count(@),
                                    ![c].elapsed = @ + call[c].poll_interval_seconds]
            /\ pc' = [pc EXCEPT ![c] = PollNext("sleep", call[c].op, poll[c].last)]
            /\ result' = [result EXCEPT ![c] =
                            IF PollNext("sleep", call[c].op, poll[c].last) = "done"
                            THEN Returned("", FALSE, poll[c].last) ELSE @]
    /\ UNCHANGED <<remote, issued, call, spec, parsed_spec, all_pipelines, reqs, prev, local>>

\* ----------------------------------------------- notebook export and import
\* workspace.py: the names the format and language enumerations know.
ExportFormats == {"SOURCE", "HTML", "JUPYTER", "DBC"}
Languages == {"PYTHON", "SCALA", "SQL", "R"}

\* What the callers pass: a known name, one in lower case, an unknown one, and
\* for the language also None (the empty text here).
FormatArgs == {"SOURCE", "source", "PDF"}
LanguageArgs == {"", "PYTHON", "python", "COBOL"}

\* str.upper()
Upper(x) ==
    CASE x = "source" -> "SOURCE"
      [] x = "python" -> "PYTHON"
      [] OTHER -> x

\* base64.b64encode(b).decode("utf-8") for the file contents of the model.
B64Encode(b) ==
    CASE b = "" -> ""
      [] b = "old" -> "b2xk"
      [] b = "new" -> "bmV3"

\* base64.b64decode(t): the bytes, or binascii.Error for text that is not
\* base64 (wrong padding).
B64Decode(t) ==
    CASE t = "" -> [err |-> "", bytes |-> ""]
      [] t = "b2xk" -> [err |-> "", bytes |-> "old"]
      [] t = "bmV3" -> [err |-> "", bytes |-> "new"]
      [] OTHER -> [err |-> "binascii.Error", bytes |-> ""]

\* The notebook and its local copy.
WorkspacePath == "/Users/u/nb"

\* What client.workspace.export may do: raise, or return an object whose
\* content is empty, base64 text, or text that is not base64.
ExportAnswers ==
    {[ok |-> FALSE, response |-> ""]}
        \cup {[ok |-> TRUE, response |-> t] : t \in {"", "bmV3", "bmV"}}

\* The local filesystem before the program runs: no parent directory, an
\* empty parent directory, or an older copy of the file.
InitDisks == {Disk(FALSE, NoFile), Disk(TRUE, NoFile), Disk(TRUE, "old")}

ReturnedBool(b) == [NoResult EXCEPT !.status = "returned", !.success = b]

\* Variant of the two functions without their try/except: an exception
\* reaches the caller.
NotebookResultRaising(err, value) ==
    IF err # "" THEN Raised(err) ELSE ReturnedBool(value)

\* workspace.py 99-100 and 151-152: except Exception: return False.
NotebookResult(err, value) ==
    IF err # "" THEN ReturnedBool(FALSE) ELSE ReturnedBool(value)

\* workspace.py 79-98, the body of export_notebook's try, on the filesystem
\* disk; mk, op and wr tell whether mkdir, open and write succeed.
ExportOutcome(fmt, disk, ans, mk, op, wr) ==
    LET rq == Answered("export",
                       [k \in {"path", "format"} |->
                            IF k = "path" THEN WorkspacePath ELSE Upper(fmt)],
                       ans.ok, ans.response)
        made == [disk EXCEPT !.parent = TRUE]
        content == B64Decode(ans.response)
        Ends(err, value, sent, d) ==
            [err |-> err, value |-> value, reqs |-> sent, disk |-> d]
    IN  IF Upper(fmt) \notin ExportFormats
        THEN Ends("KeyError", FALSE, <<>>, disk)
        ELSE IF ~ans.ok
        THEN Ends("RemoteError", FALSE, <<rq>>, disk)
        ELSE IF ~disk.parent /\ ~mk
        THEN Ends("OSError", FALSE, <<rq>>, [disk EXCEPT !.fault = "mkdir"])
        ELSE IF ans.response = ""
        THEN Ends("", FALSE, <<rq>>, made)
        ELSE IF content.err # ""
        THEN Ends(content.err, FALSE, <<rq>>, made)
        ELSE IF ~op
        THEN Ends("OSError", FALSE, <<rq>>, [made EXCEPT !.fault = "open"])
        ELSE IF ~wr
        THEN Ends("OSError", FALSE, <<rq>>,
                  [made EXCEPT !.file = "", !.fault = "write"])
        ELSE Ends("", TRUE, <<rq>>, [made EXCEPT !.file = content.bytes])

\* workspace.py 132-150, the body of import_notebook's try; rd tells whether
\* the file can be read, ok whether import_ returns.
ImportOutcome(lang, overwrite, disk, rd, ok) ==
    LET keys == {"path", "content", "format", "overwrite"}
                    \cup (IF lang # "" THEN {"language"} ELSE {})
        kwargs == [k \in keys |->
                    CASE k = "path" -> WorkspacePath
                      [] k = "content" -> B64Encode(disk.file)
                      [] k = "format" -> "SOURCE"
                      [] k = "overwrite" -> overwrite
                      [] k = "language" -> Upper(lang)]
        Ends(err, value, sent, d) ==
            [err |-> err, value |-> value, reqs |-> sent, disk |-> d]
    IN  IF disk.file = NoFile
        THEN Ends("FileNotFoundError", FALSE, <<>>, [disk EXCEPT !.fault = "read"])
        ELSE IF ~rd
        THEN Ends("OSError", FALSE, <<>>, [disk EXCEPT !.fault = "read"])
        ELSE IF lang # "" /\ Upper(lang) \notin Languages
        THEN Ends("KeyError", FALSE, <<>>, disk)
        ELSE IF ~ok
        THEN Ends("RemoteError", FALSE, <<Request("import_", kwargs, FALSE)>>, disk)
        ELSE Ends("", TRUE, <<Request("import_", kwargs, TRUE)>>, disk)

\* A notebook call cl that ended as o says.
NotebookCall(c, cl, o) ==
    /\ call' = [call EXCEPT ![c] = cl]
    /\ reqs' = [reqs EXCEPT ![c] = o.reqs]
    /\ local' = o.disk
    /\ result' = [result EXCEPT ![c] = NotebookResult(o.err, o.value)]
    /\ pc' = [pc EXCEPT ![c] = "done"]
    /\ spec' = [spec EXCEPT ![c] = NoneArg]
    /\ parsed_spec' = [parsed_spec EXCEPT ![c] = EmptyMap]
    /\ all_pipelines' = [all_pipelines EXCEPT ![c] = <<>>]
    /\ UNCHANGED <<remote, issued, poll, prev>>

ExportNotebook(c) ==
    /\ pc[c] = "idle"
    /\ \E fmt \in FormatArgs, ans \in ExportAnswers, mk, op, wr \in BOOLEAN :
        LET disk == [local EXCEPT !.fault = ""] IN
        NotebookCall(c, [NoCall EXCEPT !.op = "export_notebook", !.format = fmt,
                                       !.local0 = disk],
                     ExportOutcome(fmt, disk, ans, mk, op, wr))

ImportNotebook(c) ==
    /\ pc[c] = "idle"
    /\ \E lang \in LanguageArgs, overwrite, rd, ok \in BOOLEAN :
        LET disk == [local EXCEPT !.fault = ""] IN
        NotebookCall(c, [NoCall EXCEPT !.op = "import_notebook", !.language = lang,
                                       !.overwrite = overwrite, !.local0 = disk],
                     ImportOutcome(lang, overwrite, disk, rd, ok))

\* ----------------------------------------------------------- specification
Step(c) ==
    \/ Create(c)
    \/ Update(c)
    \/ Delete(c)
    \/ CreateOrUpdate(c)
    \/ ListPipelines(c)
    \/ UpdateExisting(c)
    \/ CreateMissing(c)
    \/ DryRun(c)
    \/ Start(c)
    \/ Stop(c)
    \/ Return(c)

\* One caller: the calls of a program follow one another.
Next == Step(1)

Spec == Init /\ [][Next]_vars

\* The steps of a poll once it has been called.
PollRun(c) == LoopTest(c) \/ Fetch(c) \/ Sleep(c)

PollStep(c) ==
    \/ WaitFor(c)
    \/ LoopTest(c)
    \/ Fetch(c)
    \/ Sleep(c)
    \/ Return(c)

NextPoll == PollStep(1)

\* The pollers of one caller.
SpecPoll == Init /\ [][NextPoll]_vars

\* The calling thread keeps running: a poll that can take a step takes it.
SpecPollFair == SpecPoll /\ WF_vars(PollRun(1))

\* A program that uses the pipeline functions and the pollers.
NextAll == Next \/ NextPoll

SpecAll == Init /\ [][NextAll]_vars

\* A program that exports and imports a notebook, whatever is on the disk.
InitNotebook ==
    /\ remote = <<>>
    /\ issued = 0
    /\ local \in InitDisks
    /\ InitCallers

NextNotebook == ExportNotebook(1) \/ ImportNotebook(1) \/ Return(1)

SpecNotebook == InitNotebook /\ [][NextNotebook]_vars

\* No two pipelines of the listing r share a name.
UniqueNames(r) ==
    \A i, j \in 1..Len(r) : r[i].name = r[j].name => i = j

\* A program that only reconciles and deletes, in a workspace whose names are
\* unique to begin with.
InitReconcile ==
    /\ remote \in {r \in InitRemotes \cup
                        {<<Pipeline(PipelineIds[1], "a"), Pipeline(PipelineIds[2], "b")>>} :
                    UniqueNames(r)}
    /\ issued = Len(remote)
    /\ local = Disk(FALSE, NoFile)
    /\ InitCallers

NextReconcile ==
    \/ CreateOrUpdate(1)
    \/ ListPipelines(1)
    \/ UpdateExisting(1)
    \/ CreateMissing(1)
    \/ Delete(1)
    \/ Return(1)

SpecReconcile == InitReconcile /\ [][NextReconcile]_vars

\* Two threads of a program reconcile at the same time, each a pipeline named
\* in its spec; between the listing and the write of one the other may run.
NamedSpecs == {DictArg(MapOf({"a"}, {}, {})), DictArg(MapOf({"b"}, {}, {}))}

StepConcurrent(c) ==
    \/ CreateOrUpdateFrom(c, NamedSpecs, {EmptyMap})
    \/ ListPipelines(c)
    \/ UpdateExisting(c)
    \/ CreateMissing(c)
    \/ Return(c)

NextConcurrent == \E c \in Callers : StepConcurrent(c)

SpecConcurrent == Init /\ [][NextConcurrent]_vars

\* ================================================================= claims
\* The create and update requests of the current call, in order.
Writes(c) == SelectSeq(reqs[c], LAMBDA r : r.method \in {"create", "update"})

\* create_or_update has ended after a listing that the remote returned.
Listed(c) ==
    /\ pc[c] = "done"
    /\ call[c].op = "create_or_update"
    /\ Len(reqs[c]) >= 1
    /\ reqs[c][1].method = "list_pipelines"
    /\ reqs[c][1].ok

Matches(c) ==
    {i \in 1..Len(all_pipelines[c]) : all_pipelines[c][i].name = NameIn(parsed_spec[c])}

\* args carries every field of the mapping m, and id as pipeline_id.
CarriesWithId(args, m, id) ==
    /\ DOMAIN args = DOMAIN m \cup {"pipeline_id"}
    /\ args["pipeline_id"] = id
    /\ \A k \in DOMAIN m \ {"pipeline_id"} : args[k] = m[k]

\* C1: create_or_update, found branch.  When the listing holds a pipeline with
\* the merged spec's name, the call sends exactly one update request, which
\* carries every field of the merged specification and that pipeline's
\* identifier as pipeline_id, sends no create request, and, the update request
\* having succeeded, returns (that identifier, False).
C1_FoundBranchUpdates ==
    \A c \in Callers :
        (Listed(c) /\ Matches(c) # {}) =>
            /\ Len(Writes(c)) = 1
            /\ Writes(c)[1].method = "update"
            /\ \E i \in Matches(c) :
                /\ CarriesWithId(Writes(c)[1].args, parsed_spec[c],
                                 all_pipelines[c][i].pipeline_id)
                /\ Writes(c)[1].ok =>
                     result[c] = Returned(all_pipelines[c][i].pipeline_id, FALSE, "")

C1_Witness ==
    /\ Listed(1) /\ Matches(1) # {}
    /\ result[1].status = "returned"
    /\ "configuration" \in DOMAIN parsed_spec[1]

\* C2: create_or_update, not-found branch.  When no pipeline of the listing has
\* the merged spec's name, the call sends exactly one create request, which
\* carries the merged specification, sends no update request, and, the create
\* request having succeeded, returns (the identifier of the response, True).
C2_NotFoundBranchCreates ==
    \A c \in Callers :
        (Listed(c) /\ Matches(c) = {}) =>
            /\ Len(Writes(c)) = 1
            /\ Writes(c)[1].method = "create"
            /\ Writes(c)[1].args = parsed_spec[c]
            /\ Writes(c)[1].ok =>
                 /\ result[c] = Returned(PipelineIds[issued], TRUE, "")
                 /\ remote[Len(remote)] = Pipeline(PipelineIds[issued], NameIn(parsed_spec[c]))

C2_Witness ==
    /\ Listed(1) /\ Matches(1) = {}
    /\ all_pipelines[1] # <<>>
    /\ result[1].status = "returned"

MergedOf(c) == Merged(Loaded(call[c].spec), call[c].kwargs)

\* C4: a create_or_update call whose merged specification has no name, or an
\* empty one, ends with ValueError before any request is sent to the remote.
C4_MissingNameFailsBeforeRemote ==
    \A c \in Callers :
        (/\ call[c].op = "create_or_update"
         /\ MergedOf(c).err = ""
         /\ NameIn(MergedOf(c).map) = "") =>
            /\ pc[c] = "done"
            /\ result[c] = Raised("ValueError")
            /\ reqs[c] = <<>>

C4_Witness ==
    /\ call[1].op = "create_or_update"
    /\ MergedOf(1).err = ""
    /\ "name" \in DOMAIN MergedOf(1).map
    /\ NameIn(MergedOf(1).map) = ""
    /\ result[1].error = "ValueError"
    /\ remote # <<>>

Mutating == {"create", "update", "create_or_update"}

\* The base specification of a call: what its spec argument stands for (update
\* takes a spec that is not truthy for no specification).
BaseOf(c) ==
    IF call[c].op = "update" /\ ~Truthy(call[c].spec) THEN EmptyMap
    ELSE Loaded(call[c].spec).map

\* The keys on which the request args must agree with overrides and base.
OverrideWins(args, kwargs, base, keys) ==
    /\ \A k \in DOMAIN kwargs \cap keys : k \in DOMAIN args /\ args[k] = kwargs[k]
    /\ \A k \in (DOMAIN base \ DOMAIN kwargs) \cap keys :
            k \in DOMAIN args /\ args[k] = base[k]

AllKeys == {"name", "pipeline_id", "configuration"}

\* C5 as stated: in every create or update request sent by create, update or
\* create_or_update, every key of the overrides has the override's value and
\* every other key of the base specification has the base value.
C5_OverridesAlwaysWin ==
    \A c \in Callers :
        call[c].op \in Mutating =>
            \A i \in 1..Len(Writes(c)) :
                OverrideWins(Writes(c)[i].args, call[c].kwargs, BaseOf(c), AllKeys)

\* C5 amended: the same, for every key but the pipeline_id of an update
\* request, which is the target identifier whatever base and overrides carry:
\* the pipeline_id argument in update, a listed pipeline's identifier in
\* create_or_update.  No other key is added and none is dropped.
C5_OverridesWinExceptTargetId ==
    \A c \in Callers :
        call[c].op \in Mutating =>
            \A i \in 1..Len(Writes(c)) :
                LET r == Writes(c)[i] IN
                /\ DOMAIN r.args \subseteq
                     DOMAIN call[c].kwargs \cup DOMAIN BaseOf(c) \cup {"pipeline_id"}
                /\ IF r.method = "create"
                   THEN OverrideWins(r.args, call[c].kwargs, BaseOf(c), AllKeys)
                   ELSE /\ OverrideWins(r.args, call[c].kwargs, BaseOf(c),
                                        AllKeys \ {"pipeline_id"})
                        /\ "pipeline_id" \in DOMAIN r.args
                        /\ IF call[c].op = "update"
                           THEN r.args["pipeline_id"] = call[c].pipeline_id
                           ELSE \E j \in 1..Len(all_pipelines[c]) :
                                   r.args["pipeline_id"] = all_pipelines[c][j].pipeline_id

\* An override replaces a nested value of the base wholesale, and the
\* override's pipeline_id gives way to the target of an update request.
C5_Witness ==
    /\ pc[1] = "done"
    /\ call[1].op = "create_or_update"
    /\ Len(Writes(1)) = 1
    /\ Writes(1)[1].method = "update"
    /\ "configuration" \in DOMAIN BaseOf(1)
    /\ "configuration" \in DOMAIN call[1].kwargs
    /\ Writes(1)[1].args["configuration"] = ConfigOverride
    /\ "pipeline_id" \in DOMAIN call[1].kwargs
    /\ Writes(1)[1].args["pipeline_id"] # call[1].kwargs["pipeline_id"]

\* The other form of a specification: the text of a mapping, the mapping of
\* an object text.
HasTwin(s) == s.form = "dict" \/ (s.form = "str" /\ s.syntax = "object")
Twin(s) == IF s.form = "dict" THEN Dumps(s.map) ELSE DictArg(ObjectOf(s.members))

\* What a mutating function makes of its arguments before it calls the remote.
LocalOutcome(op, pid, s, kwargs) ==
    CASE op = "create" -> CreateArgs(s, kwargs)
      [] op = "update" -> UpdateArgs(pid, s, kwargs)
      [] OTHER -> ParsedSpec(s, kwargs)

\* The request create_or_update sends for parsed_spec m after the listing.
ReconcileArgs(listing, m) ==
    IF ExistingPipeline(listing, NameIn(m)) = 0 THEN m
    ELSE UpdateSpec(m, listing[ExistingPipeline(listing, NameIn(m))].pipeline_id)

\* C6: text form and structured form are interchangeable.  A call of create,
\* update or create_or_update that has ended did what the same call does with
\* the specification in its other form (the mapping serialized, the text
\* parsed): the same error before any request, or else the same request; the
\* return value is the remote's answer to that request in both.
C6_TextAndMappingInterchangeable ==
    \A c \in Callers :
        (pc[c] = "done" /\ call[c].op \in Mutating /\ HasTwin(call[c].spec)) =>
            LET t == LocalOutcome(call[c].op, call[c].pipeline_id,
                                  Twin(call[c].spec), call[c].kwargs)
            IN  IF t.err # ""
                THEN result[c] = Raised(t.err) /\ reqs[c] = <<>>
                ELSE /\ result[c].error \in {"", "RemoteError", "RuntimeError"}
                     /\ call[c].op \in {"create", "update"} =>
                            Len(Writes(c)) = 1 /\ Writes(c)[1].args = t.map
                     /\ (call[c].op = "create_or_update" /\ Listed(c)) =>
                            /\ Len(Writes(c)) = 1
                            /\ Writes(c)[1].args = ReconcileArgs(all_pipelines[c], t.map)

C6_Witness ==
    /\ pc[1] = "done"
    /\ call[1].op = "update"
    /\ call[1].spec.form = "str"
    /\ Len(call[1].spec.members) >= 2
    /\ result[1].status = "returned"

\* C7 as stated: a call of create, update or create_or_update with a text that
\* is not a serialized mapping (the empty text included) ends with the
\* data-format error, and has sent no request.
C7_MalformedTextFails ==
    \A c \in Callers :
        (pc[c] = "done" /\ call[c].op \in Mutating /\ call[c].spec \in MalformedTexts) =>
            result[c] = Raised("JSONDecodeError") /\ reqs[c] = <<>>

\* A poll has ended.
Polled(c) == pc[c] = "done" /\ call[c].op \in Pollers

\* C8: the poller returns at the fetch that saw the terminal state: a call
\* that returns after k fetches has slept k-1 intervals, none after the last
\* fetch, and elapsed is the time of those sleeps.
C8_ReturnsAtTerminalFetch ==
    \A c \in Callers :
        (Polled(c) /\ result[c].status = "returned" /\ poll[c].fetches < MaxPolls) =>
            /\ poll[c].sleeps = poll[c].fetches - 1
            /\ poll[c].elapsed = poll[c].sleeps * call[c].poll_interval_seconds
            /\ poll[c].last \in TerminalStates(call[c].op)
            /\ result[c].state = poll[c].last

C8_Witness ==
    /\ Polled(1)
    /\ result[1].status = "returned"
    /\ poll[1].fetches = 3
    /\ poll[1].sleeps = 2

\* C9: when the fetches keep returning non-terminal states until elapsed
\* reaches timeout_seconds, the poll ends with TimeoutError naming the watched
\* identifier and timeout_seconds, and returns no value; TimeoutError is raised
\* in no other case.
C9_TimeoutAtBound ==
    \A c \in Callers :
        Polled(c) =>
            /\ poll[c].elapsed >= call[c].timeout_seconds =>
                /\ result[c] = [Raised("TimeoutError") EXCEPT
                                   !.msg_id = Watched(call[c].op),
                                   !.msg_timeout = call[c].timeout_seconds]
                /\ poll[c].last \notin TerminalStates(call[c].op)
            /\ result[c].error = "TimeoutError" =>
                    poll[c].elapsed >= call[c].timeout_seconds

C9_Witness ==
    /\ Polled(1)
    /\ result[1].error = "TimeoutError"
    /\ poll[1].fetches = 2
    /\ poll[1].last = "RUNNING"
    /\ poll[1].elapsed = call[1].timeout_seconds

\* C10 as stated: every call of wait_for_update or wait_for_run ends, whatever
\* the timeout, the interval and the states the remote returns.
C10_EveryWaitTerminates ==
    \A c \in Callers : (pc[c] = "loop") ~> (pc[c] = "done")

\* C11: the poller only watches.  From the call of wait_for_update to its end,
\* a TimeoutError included, every request it has sent is a get_update for the
\* given pipeline and update identifiers (no stop, cancel, update or delete),
\* and no step of the poll changes the remote.
C11_PollerOnlyWatches ==
    /\ [](\A c \in Callers :
            call[c].op = "wait_for_update" =>
                \A i \in 1..Len(reqs[c]) :
                    /\ reqs[c][i].method = "get_update"
                    /\ DOMAIN reqs[c][i].args = {"pipeline_id", "update_id"}
                    /\ reqs[c][i].args["pipeline_id"] = PolledPipeline
                    /\ reqs[c][i].args["update_id"] = call[c].pipeline_id)
    /\ [][(\E c \in Callers : PollRun(c)) => UNCHANGED <<remote, issued>>]_vars

C11_Witness ==
    /\ Polled(1)
    /\ call[1].op = "wait_for_update"
    /\ result[1].error = "TimeoutError"
    /\ Len(reqs[1]) = 3
    /\ remote # <<>>

\* C12: a poll returns only terminal snapshots.  A value returned by
\* wait_for_update has state COMPLETED, FAILED or CANCELED, one returned by
\* wait_for_run has TERMINATED, SKIPPED or INTERNAL_ERROR, and it is what the
\* most recent fetch, the last request of the call, returned.
C12_ReturnsOnlyTerminal ==
    \A c \in Callers :
        (Polled(c) /\ result[c].status = "returned") =>
            /\ call[c].op = "wait_for_update" =>
                    result[c].state \in {"COMPLETED", "FAILED", "CANCELED"}
            /\ call[c].op = "wait_for_run" =>
                    result[c].state \in {"TERMINATED", "SKIPPED", "INTERNAL_ERROR"}
            /\ result[c].state = poll[c].last
            /\ reqs[c][Len(reqs[c])].method = FetchMethod(call[c].op)
            /\ reqs[c][Len(reqs[c])].ok

C12_Witness ==
    /\ Polled(1)
    /\ call[1].op = "wait_for_run"
    /\ result[1].status = "returned"
    /\ result[1].state = "SKIPPED"
    /\ poll[1].fetches = 2

FirstOf(S) == CHOOSE i \in S : \A j \in S : i <= j

\* C14: the first name match wins.  When the listing holds one or more
\* pipelines with the name, the single write of the call is an update of the
\* first of them in listing order, no create is sent, every other listed
\* pipeline is as it was, and a succeeding call returns (that first pipeline's
\* identifier, False).
C14_FirstMatchWins ==
    \A c \in Callers :
        (Listed(c) /\ Matches(c) # {}) =>
            LET existing == all_pipelines[c][FirstOf(Matches(c))] IN
            /\ Len(Writes(c)) = 1
            /\ Writes(c)[1].method = "update"
            /\ Writes(c)[1].args["pipeline_id"] = existing.pipeline_id
            /\ \A i \in 1..Len(all_pipelines[c]) :
                    i # FirstOf(Matches(c)) =>
                        \E j \in 1..Len(remote) : remote[j] = all_pipelines[c][i]
            /\ Writes(c)[1].ok =>
                    result[c] = Returned(existing.pipeline_id, FALSE, "")

C14_Witness ==
    /\ Listed(1)
    /\ Cardinality(Matches(1)) = 2
    /\ result[1] = Returned(all_pipelines[1][1].pipeline_id, FALSE, "")
    /\ all_pipelines[1][2].pipeline_id # all_pipelines[1][1].pipeline_id

\* C15 as stated: no mutating operation modifies the mapping the caller
\* passed.  When create, update or create_or_update has ended, the caller's
\* mapping, spec[c], is the mapping that was passed in, call[c].spec, so that
\* none of the overrides of this call can reach a later call made with it.
C15_CallerMappingUnmodified ==
    \A c \in Callers :
        (/\ pc[c] = "done"
         /\ call[c].op \in Mutating
         /\ call[c].spec.form = "dict") =>
            spec[c] = call[c].spec

C18_DryRunRequest ==
    \A c \in Callers :
        (pc[c] = "done" /\ call[c].op = "dry_run") =>
            LET rq == reqs[c][1]
                rs == call[c].refresh_selection
                frs == call[c].full_refresh_selection
            IN  /\ Len(reqs[c]) = 1
                /\ rq.method = "start_update"
                /\ DOMAIN rq.args \subseteq {"pipeline_id", "refresh_selection",
                                             "full_refresh_selection", "validate_only"}
                /\ rq.args["pipeline_id"] = call[c].pipeline_id
                /\ "refresh_selection" \in DOMAIN rq.args <=> (rs.given /\ rs.items # <<>>)
                /\ "refresh_selection" \in DOMAIN rq.args =>
                        rq.args["refresh_selection"] = rs.items
                /\ "full_refresh_selection" \in DOMAIN rq.args <=>
                        (frs.given /\ frs.items # <<>>)
                /\ "full_refresh_selection" \in DOMAIN rq.args =>
                        rq.args["full_refresh_selection"] = frs.items
                /\ (~rs.given /\ ~frs.given /\ call[c].validate_only) =>
                        /\ DOMAIN rq.args = {"pipeline_id", "validate_only"}
                        /\ rq.args["validate_only"] = TRUE
                /\ rq.ok => /\ result[c].status = "returned"
                            /\ result[c].update_id = rq.response

C18_Witness ==
    /\ pc[1] = "done"
    /\ call[1].op = "dry_run"
    /\ ~call[1].refresh_selection.given
    /\ ~call[1].full_refresh_selection.given
    /\ call[1].validate_only
    /\ result[1].update_id = "u2"

NotebookOps == {"export_notebook", "import_notebook"}

\* A notebook call has ended.
NotebookDone(c) == pc[c] = "done" /\ call[c].op \in NotebookOps

\* Something failed in the call: the format or language name is unknown, a
\* request raised, a file step failed, or the exported content is not base64.
NotebookFailure(c) ==
    \/ call[c].op = "export_notebook" /\ Upper(call[c].format) \notin ExportFormats
    \/ /\ call[c].op = "import_notebook"
       /\ call[c].language # ""
       /\ Upper(call[c].language) \notin Languages
    \/ \E i \in 1..Len(reqs[c]) : ~reqs[c][i].ok
    \/ local.fault # ""
    \/ /\ call[c].op = "export_notebook"
       /\ Len(reqs[c]) = 1
       /\ B64Decode(reqs[c][1].response).err # ""

\* C17: export_notebook and import_notebook never raise.  Each call returns
\* a boolean; it is False whenever something failed, and it is True only when
\* the one request returned and the file step was done: the decoded content
\* is the file (export), the encoded file was the content sent (import).
C17_NotebookNeverRaises ==
    \A c \in Callers :
        NotebookDone(c) =>
            /\ result[c].status = "returned"
            /\ NotebookFailure(c) => ~result[c].success
            /\ result[c].success =>
                /\ Len(reqs[c]) = 1
                /\ reqs[c][1].ok
                /\ local.fault = ""
                /\ call[c].op = "export_notebook" =>
                        /\ reqs[c][1].method = "export"
                        /\ local.file = B64Decode(reqs[c][1].response).bytes
                /\ call[c].op = "import_notebook" =>
                        /\ reqs[c][1].method = "import_"
                        /\ call[c].local0.file # NoFile
                        /\ reqs[c][1].args["content"] = B64Encode(call[c].local0.file)

C17_Witness ==
    /\ NotebookDone(1)
    /\ call[1].op = "export_notebook"
    /\ Len(reqs[1]) = 1
    /\ reqs[1][1].ok
    /\ local.fault = "write"
    /\ call[1].local0.file = "old"
    /\ result[1] = ReturnedBool(FALSE)

\* C19 as stated: export_notebook returns True only if the remote returned
\* non-empty content and the decoded content is the file at local_path; when
\* the remote returned empty content the call returns False and the local
\* filesystem, directory and file, is as it was before the call.
C19_ExportLeavesDiskOnEmptyContent ==
    \A c \in Callers :
        (NotebookDone(c) /\ call[c].op = "export_notebook") =>
            /\ result[c].success =>
                /\ reqs[c][1].ok
                /\ reqs[c][1].response # ""
                /\ local.file = B64Decode(reqs[c][1].response).bytes
            /\ (Len(reqs[c]) = 1 /\ reqs[c][1].ok /\ reqs[c][1].response = "") =>
                /\ ~result[c].success
                /\ local.file = call[c].local0.file
                /\ local.parent = call[c].local0.parent

\* C20: sequential reconciliation keeps names unique.  From a workspace with
\* no shared name, through any sequence of create_or_update and delete calls,
\* no two pipelines share a name; the listing a call works on is the
\* workspace at that moment, and a call that returns reports was_created True
\* exactly when no listed pipeline had the name.
C20_NamesStayUnique ==
    /\ UniqueNames(remote)
    /\ \A c \in Callers :
        /\ pc[c] = "found" => all_pipelines[c] = remote
        /\ (Listed(c) /\ result[c].status = "returned") =>
                (result[c].was_created <=> Matches(c) = {})

C20_Witness ==
    /\ Listed(1)
    /\ result[1].status = "returned"
    /\ result[1].was_created
    /\ prev[1].was_created
    /\ Len(remote) = 2
    /\ Len(all_pipelines[1]) = 1

\* Two calls of create_or_update that are with their callers at the same
\* time have returned for the same name, and when the first of them listed
\* the workspace no pipeline had that name.
BothReconciled(c, d) ==
    /\ c # d
    /\ Listed(c) /\ Listed(d)
    /\ result[c].status = "returned" /\ result[d].status = "returned"
    /\ NameIn(parsed_spec[c]) = NameIn(parsed_spec[d])
    /\ Matches(c) = {} \/ Matches(d) = {}

\* C21 as stated: of two interleaved create_or_update calls for a name that no
\* pipeline has, exactly one sends create and reports was_created True, both
\* return the same identifier, and afterwards exactly one pipeline has the
\* name.
C21_OneCreatorUnderInterleaving ==
    \A c, d \in Callers :
        BothReconciled(c, d) =>
            /\ result[c].was_created # result[d].was_created
            /\ Len(Writes(c) \o Writes(d)) = 2
            /\ Cardinality({w \in {Writes(c)[1], Writes(d)[1]} : w.method = "create"}) = 1
            /\ result[c].pipeline_id = result[d].pipeline_id
            /\ Cardinality({i \in 1..Len(remote) :
                                remote[i].name = NameIn(parsed_spec[c])}) = 1

\* ceil(a / b) for b > 0.
CeilDiv(a, b) == (a + b - 1) \div b

\* A poll with a positive interval has ended in TimeoutError.
TimedOut(c) ==
    /\ Polled(c)
    /\ result[c].error = "TimeoutError"
    /\ call[c].poll_interval_seconds > 0

\* The counts of a poll that timed out: ceil(timeout / interval) fetches, as
\* many sleeps, and a slept time from timeout up to timeout + interval.
TimeoutCounts(c) ==
    /\ poll[c].fetches = CeilDiv(call[c].timeout_seconds, call[c].poll_interval_seconds)
    /\ poll[c].sleeps = poll[c].fetches
    /\ poll[c].elapsed >= call[c].timeout_seconds
    /\ poll[c].elapsed < call[c].timeout_seconds + call[c].poll_interval_seconds

\* A fetch is sent only while the slept time is below timeout_seconds.
FetchesBelowTimeout ==
    \A c \in Callers : pc[c] = "fetch" => poll[c].elapsed < call[c].timeout_seconds

\* C22 as stated: with a positive interval and only non-terminal states
\* fetched, the poll raises TimeoutError after exactly
\* ceil(timeout_seconds / poll_interval_seconds) fetches and as many sleeps,
\* having slept at least timeout_seconds and less than timeout_seconds +
\* poll_interval_seconds, whatever timeout_seconds is.
C22_PollCountOnTimeout ==
    /\ FetchesBelowTimeout
    /\ \A c \in Callers : TimedOut(c) => TimeoutCounts(c)

\* C22, amended: the same for timeout_seconds >= 0.  (A negative timeout
\* ends the poll with no fetch and no sleep, which is not ceil(timeout /
\* interval) when that is negative.)
C22_PollCountOnTimeoutFromZero ==
    /\ FetchesBelowTimeout
    /\ \A c \in Callers :
        (TimedOut(c) /\ call[c].timeout_seconds >= 0) => TimeoutCounts(c)

C22_Witness ==
    /\ TimedOut(1)
    /\ call[1].timeout_seconds = 3
    /\ call[1].poll_interval_seconds = 2
    /\ poll[1].fetches = 2
    /\ poll[1].elapsed = 4

\* C23: a poll called with timeout_seconds <= 0 sends no status fetch and does
\* not sleep, whatever state the watched operation is in, and ends in
\* TimeoutError naming the watched identifier and the timeout.
C23_NoFetchOnZeroTimeout ==
    \A c \in Callers :
        (call[c].op \in Pollers /\ call[c].timeout_seconds <= 0) =>
            /\ pc[c] \in {"loop", "done"}
            /\ reqs[c] = <<>>
            /\ poll[c] = NoPoll
            /\ pc[c] = "done" =>
                    result[c] = [Raised("TimeoutError") EXCEPT
                                    !.msg_id = Watched(call[c].op),
                                    !.msg_timeout = call[c].timeout_seconds]

C23_Witness ==
    /\ Polled(1)
    /\ call[1].op = "wait_for_run"
    /\ call[1].timeout_seconds = 0
    /\ call[1].poll_interval_seconds = 1
    /\ result[1].error = "TimeoutError"
    /\ reqs[1] = <<>>

\* C24 as stated: in create_or_update a create or update request that raises
\* is reported as the RuntimeError of line 279, like a listing that raises,
\* and the only other errors of the function are the data-format error and
\* the missing-name ValueError, both raised before any request.
C24_OnlyTwoErrorsUnwrapped ==
    \A c \in Callers :
        (pc[c] = "done" /\ call[c].op = "create_or_update"
                        /\ result[c].status = "raised") =>
            \/ /\ reqs[c] # <<>>
               /\ ~reqs[c][Len(reqs[c])].ok
               /\ result[c] = Raised("RuntimeError")
            \/ /\ reqs[c] = <<>>
               /\ result[c].error \in {"JSONDecodeError", "ValueError"}

C26_DryRunWithoutFlagIsStart ==
    \A c \in Callers :
        pc[c] = "done" =>
            /\ (/\ call[c].op = "dry_run"
                /\ ~call[c].validate_only
                /\ ~call[c].full_refresh_selection.given) =>
                    /\ Len(reqs[c]) = 1
                    /\ reqs[c][1].method = "start_update"
                    /\ reqs[c][1].args =
                            StartArgs(call[c].pipeline_id, FALSE, call[c].refresh_selection)
                    /\ "validate_only" \notin DOMAIN reqs[c][1].args
            /\ (call[c].op = "start" /\ ~call[c].full_refresh) =>
                    /\ Len(reqs[c]) = 1
                    /\ reqs[c][1].method = "start_update"
                    /\ reqs[c][1].args =
                            DryRunArgs(call[c].pipeline_id, call[c].refresh_selection,
                                       NoneList, FALSE)
            /\ (call[c].op \in {"dry_run", "start"} /\ reqs[c][1].ok) =>
                    /\ result[c].status = "returned"
                    /\ result[c].update_id = reqs[c][1].response
            /\ call[c].op = "dry_run" =>
                    ("validate_only" \in DOMAIN reqs[c][1].args <=> call[c].validate_only)

C26_Witness ==
    /\ pc[1] = "done"
    /\ call[1].op = "dry_run"
    /\ ~call[1].validate_only
    /\ ~call[1].full_refresh_selection.given
    /\ call[1].refresh_selection = ListOf(<<"t1">>)
    /\ DOMAIN reqs[1][1].args = {"pipeline_id", "refresh_selection"}
    /\ result[1].update_id = "u1"
====
